---- MODULE Spec2Model ----
(***************************************************************************)
(* Model of gamepad-rxjs (src/index.ts): the class GamepadObservables.     *)
(*                                                                         *)
(* gamepadEvent$ is                                                        *)
(*    fromEvent(window,'gamepadconnected').pipe(map(() => idleGamepad))    *)
(*      .pipe(switchMap(g => concat(of(g), interval(15).pipe(map(poll)))), *)
(*            takeUntil(fromEvent(window,'gamepaddisconnected')),          *)
(*            shareReplay(1))                                              *)
(* and the 51 button streams and 4 joystick streams are pairwise diffs of  *)
(* projections of gamepadEvent$.                                           *)
(*                                                                         *)
(* Units.  Axis values and button values are integers in hundredths        *)
(* (100 = 1.0), pressures in thousandths (1000 = 1.0), angles in           *)
(* thousandths of a degree (90000 = 90 degrees).  A JavaScript value that  *)
(* may be a number, NaN or undefined is a record [k, v].                   *)
(***************************************************************************)
EXTENDS Integers, Sequences, FiniteSets, TLC

\* ------------------------------------------------------------------ bounds
NumDevices == 2
NumConsumers == 2
MaxTicks == 2

\* ------------------------------------------------------- program constants
NumButtons == 17
NumJoysticks == 2
IdleAxesLength == 2
LiveAxesLength == 4
BufferSize == 1
PressureClamp == 975

Devices == 0 .. (NumDevices - 1)

\* the indices the instance is constructed with (the others are symmetric)
ManagedIndices == {0}
Consumers == 1 .. NumConsumers
Buttons == 0 .. (NumButtons - 1)
Joysticks == 0 .. (NumJoysticks - 1)

\* ------------------------------------------------------- JavaScript values
Num(n) == [k |-> "num", v |-> n]
NaN == [k |-> "NaN", v |-> 0]
Undefined == [k |-> "undefined", v |-> 0]

\* a * n for a number n: undefined and NaN give NaN
JsMul(a, n) == IF a.k = "num" THEN Num(a.v * n) ELSE NaN

\* a !== b: NaN differs from everything, itself included
StrictNeq(a, b) == a.k = "NaN" \/ b.k = "NaN" \/ a # b

\* a >= n for a number n: false for NaN
JsGe(a, n) == a.k = "num" /\ a.v >= n

\* floor of the square root by bisection of lo .. hi, for n below 4,000,000
\* (the bounds are bound as values at every level)
RECURSIVE SqrtSearch(_, _, _)
SqrtSearch(n, lo, hi) ==
    IF lo >= hi THEN lo
    ELSE CHOOSE r \in {IF b[3] * b[3] <= n THEN SqrtSearch(n, b[3], b[2])
                                            ELSE SqrtSearch(n, b[1], b[3] - 1) :
                          b \in {<<lo, hi, (lo + hi + 1) \div 2>>}} : TRUE

ISqrt(n) == SqrtSearch(n, 0, 2000)

\* Math.sqrt(x ** 2 + y ** 2), hundredths in, thousandths out
JsHypot(x, y) ==
    IF x.k = "num" /\ y.k = "num"
    THEN Num(ISqrt((x.v * x.v + y.v * y.v) * 100))
    ELSE NaN

Abs(n) == IF n < 0 THEN 0 - n ELSE n

\* Math.atan2(y, x) in thousandths of a degree, in (-180000, 180000], on
\* the directions of the sampled grid (axis-aligned, diagonal, 1:2, 2:1)
Atan2(y, x) ==
    LET ax == Abs(x)
        ay == Abs(y)
        base == CASE ay = 0 -> 0
                  [] ay # 0 /\ ax = 0 -> 90000
                  [] ay # 0 /\ ax = ay -> 45000
                  [] ay # 0 /\ ax # 0 /\ ax = 2 * ay -> 26565
                  [] ay # 0 /\ ax # 0 /\ ay = 2 * ax -> 63435
    IN CASE x >= 0 /\ y >= 0 -> base
         [] x < 0 /\ y >= 0 -> 180000 - base
         [] x < 0 /\ y < 0 -> base - 180000
         [] x >= 0 /\ y < 0 -> 0 - base

\* ((Math.atan2(y, x) + Math.PI * 2) % (Math.PI * 2)) * (180 / Math.PI)
getAngleFromCoordinates(x, y) ==
    IF x.k = "num" /\ y.k = "num"
    THEN Num((Atan2(y.v, x.v) + 360000) % 360000)
    ELSE NaN

\* ---------------------------------------------------------------- gamepads
IdleButton == [pressed |-> FALSE, touched |-> FALSE, value |-> 0]

\* const idleGamepad = Object.freeze({ axes: length 2, buttons: length 17 })
idleGamepad ==
    [null |-> FALSE,
     axes |-> [k \in 0 .. (IdleAxesLength - 1) |-> Num(0)],
     buttons |-> [i \in Buttons |-> IdleButton]]

\* getGamepads()[index] when no device sits at the index
NullGamepad == [null |-> TRUE, axes |-> <<>>, buttons |-> <<>>]

\* gamepad.axes[k]: undefined past the end of the array
AxisAt(gamepad, k) ==
    IF k \in DOMAIN gamepad.axes THEN gamepad.axes[k] ELSE Undefined

\* ------------------------------------------ the states a device can report
\* rest, half pressed (value without pressed), fully pressed
ButtonReadings == {<<FALSE, 0>>, <<FALSE, 100>>, <<TRUE, 100>>}

\* centred, pushed right, pushed down (raw axes: down is positive)
JoystickReadings == {<<0, 0>>, <<100, 0>>, <<0, 100>>}

\* the buttons the sampled device moves: the first and the last of the register
SampledButtons == {0, NumButtons - 1}

ButtonStates ==
    {[pressed |-> r[1], touched |-> (r[1] \/ r[2] > 0), value |-> r[2]] :
        r \in ButtonReadings}

\* a device at rest: four centred axes, seventeen untouched buttons
RestGamepad ==
    [null |-> FALSE,
     axes |-> [k \in 0 .. (LiveAxesLength - 1) |-> Num(0)],
     buttons |-> [i \in Buttons |-> IdleButton]]

WithButton(i, bs) == [RestGamepad EXCEPT !.buttons[i] = bs]

WithJoystick(j, x, y) ==
    [RestGamepad EXCEPT !.axes[2 * j] = Num(x), !.axes[2 * j + 1] = Num(y)]

LiveSamples ==
    {WithButton(i, bs) : i \in SampledButtons, bs \in ButtonStates}
    \cup {WithJoystick(j, r[1], r[2]) : j \in Joysticks, r \in JoystickReadings}

\* --------------------------------------------------------- button derivers
\* buttonEvent$: map((gamepad) => ({pressed, touched, value}))
buttonEvent(gamepad, i) ==
    [pressed |-> gamepad.buttons[i].pressed,
     touched |-> gamepad.buttons[i].touched,
     value |-> gamepad.buttons[i].value]

\* map(([previous, current]) => ({previous, current}))
MkEvent(previous, current) == [previous |-> previous, current |-> current]

\* a pressedChange$ that lets every pair through
pressedChangeFilterDropped(previous, current) == TRUE

\* filter(([previous, current]) => previous.pressed !== current.pressed)
pressedChangeFilter(previous, current) == previous.pressed # current.pressed

\* a pressed$ that lost its second filter
pressedFilterDropped(ev) == TRUE

\* filter(({ current }) => current.pressed)
pressedFilter(ev) == ev.current.pressed

\* filter(({ current }) => !current.pressed)
releasedFilter(ev) == ~ev.current.pressed

\* a change$ that diffs the pressed flag instead of the value
changeFilterOnPressed(previous, current) == previous.pressed # current.pressed

\* filter(([previous, current]) => previous.value !== current.value)
changeFilter(previous, current) == previous.value # current.value

\* what pressedChange$ emits for one pair of consecutive buttonEvent$ values
pressedChange(previous, current) ==
    IF pressedChangeFilter(previous, current)
    THEN <<MkEvent(previous, current)>> ELSE <<>>

pressed(previous, current) ==
    SelectSeq(pressedChange(previous, current), pressedFilter)

released(previous, current) ==
    SelectSeq(pressedChange(previous, current), releasedFilter)

change(previous, current) ==
    IF changeFilter(previous, current)
    THEN <<MkEvent(previous, current)>> ELSE <<>>

\* ------------------------------------------------------- joystick derivers
\* joystickEvent$: map((gamepad) => ({x: axes[i*2], y: axes[i*2+1] * -1}))
joystickEvent(gamepad, i) ==
    [x |-> AxisAt(gamepad, i * 2),
     y |-> JsMul(AxisAt(gamepad, i * 2 + 1), -1)]

\* previous.x !== current.x || previous.y !== current.y
coordinatesFilter(previous, current) ==
    StrictNeq(previous.x, current.x) \/ StrictNeq(previous.y, current.y)

\* what coordinates$ emits for one pair of consecutive joystickEvent$ values
coordinates(previous, current) ==
    IF coordinatesFilter(previous, current)
    THEN <<MkEvent(previous, current)>> ELSE <<>>

\* a direction whose pressure is the raw magnitude
directionOfUnclamped(c) ==
    [angle |-> getAngleFromCoordinates(c.x, c.y), pressure |-> JsHypot(c.x, c.y)]

\* map(({ x, y }) => ({angle, pressure: pressure >= 0.975 ? 1 : pressure}))
directionOf(c) ==
    CHOOSE d \in {[angle |-> getAngleFromCoordinates(c.x, c.y),
                   pressure |-> IF JsGe(pressure, PressureClamp) THEN Num(1000)
                                ELSE pressure] :
                     pressure \in {JsHypot(c.x, c.y)}} : TRUE

\* filter(([previous, current]) => previous.angle !== current.angle)
directionFilter(previous, current) == StrictNeq(previous.angle, current.angle)

\* what direction$ emits for one pair of consecutive mapped values
direction(previous, current) ==
    IF directionFilter(previous, current)
    THEN <<MkEvent(previous, current)>> ELSE <<>>

\* ------------------------------------------------------------------- state
VARIABLES
    gamepadIndex,   \* #gamepadIndex, the constructor's argument
    devices,        \* the device indices the host reports as connected
    connection,     \* shareReplay: "none", "open" (source subscribed), "completed"
    sourceSubs,     \* live subscriptions to the source pipeline (window listeners)
    timers,         \* active interval(15) timers
    count,          \* the active interval's counter
    sessions,       \* switchMap's index: inner observables subscribed so far
    buffer,         \* the ReplaySubject's buffer
    cons,           \* per consumer slot: its live subscriptions and pairwise buffer
    out,            \* per consumer: what the last step delivered to it
    step,           \* the last step: its operation, whether a session was live when
                    \* it began, whether it started a session or completed the
                    \* stream, its getGamepads() calls and its emissions
    latest,         \* the most recent value the source pipeline emitted
    scenario,       \* progress of connect, tick, disconnect, connect on the managed device
    hasGetGamepads, \* whether the host defines window.navigator.getGamepads
    instance,       \* "none" before new GamepadObservables(..), then "ready" or "failed"
    hist,           \* per observed consumer: the buttons its subscription holds down
    probe           \* the inputs and the result of the last direct use of the derivers

vars == <<gamepadIndex, devices, connection, sourceSubs, timers, count, sessions,
          buffer, cons, out, step, latest, scenario, hasGetGamepads, instance,
          hist, probe>>

\* what one step hands to a consumer: the values its gamepadEvent$ subscriber
\* got, the pairs its derivers compared, the events the derived streams
\* emitted (each tagged with its stream and index) and the terminal
\* notifications
EmptyOut ==
    [val |-> <<>>, pairs |-> <<>>,
     button |-> {}, coordinates |-> {}, direction |-> {},
     rawNotif |-> "none", derNotif |-> "none"]

Tagged(stream, i, evs) ==
    UNION {{[stream |-> stream, index |-> i, previous |-> s[n].previous,
             current |-> s[n].current] : n \in DOMAIN s} : s \in {evs}}

\* the events of the 51 button streams for one pair of gamepads: every
\* stream of button i maps both gamepads through buttonEvent$
ButtonEmissions(p, q) ==
    UNION {Tagged("pressed", e[1], pressed(e[2], e[3]))
           \cup Tagged("released", e[1], released(e[2], e[3]))
           \cup Tagged("change", e[1], change(e[2], e[3])) :
             e \in {<<i, buttonEvent(p, i), buttonEvent(q, i)>> : i \in Buttons}}

\* the events of the 2 coordinates streams and of the 2 direction streams
CoordinatesEmissions(p, q) ==
    UNION {Tagged("coordinates", e[1], coordinates(e[2], e[3])) :
             e \in {<<i, joystickEvent(p, i), joystickEvent(q, i)>> : i \in Joysticks}}

DirectionEmissions(p, q) ==
    UNION {Tagged("direction", e[1], direction(e[2], e[3])) :
             e \in {<<i, directionOf(joystickEvent(p, i)),
                        directionOf(joystickEvent(q, i))>> : i \in Joysticks}}

NewConsumer == [raw |-> "none", der |-> "none", last |-> <<>>]

NoStep ==
    [op |-> "init", device |-> -1, consumer |-> 0, live |-> FALSE,
     started |-> FALSE, terminated |-> FALSE, calls |-> 0, emits |-> 0]

\* ------------------------------------------------- shareReplay(1) and share
\* a ReplaySubject that never trims its buffer
ReplayNextUntrimmed(buf, v) == Append(buf, v)

\* ReplaySubject.next: push, then trim the buffer to bufferSize
ReplayNext(buf, v) ==
    LET b == Append(buf, v)
    IN IF Len(b) > BufferSize THEN SubSeq(b, Len(b) - BufferSize + 1, Len(b)) ELSE b

RECURSIVE ReplayAll(_, _)
ReplayAll(buf, vs) ==
    IF vs = <<>> THEN buf ELSE ReplayAll(ReplayNext(buf, Head(vs)), Tail(vs))

\* no sharing: every subscriber subscribes the source pipeline again
NeedsConnectAlways(conn) == TRUE

\* share: if (!connection && refCount > 0) subscribe the source
NeedsConnect(conn) == conn = "none"

\* shareReplay({bufferSize: 1, refCount: true})
ResetOnRefCountZeroCounted == TRUE

\* shareReplay(1): refCount false, so resetOnRefCountZero is false
ResetOnRefCountZero == FALSE

\* ---------------------------------------------------- delivery to consumers
\* One value reaches consumer st.c: its gamepadEvent$ subscriber gets it, and
\* each of its derived streams maps it, pairs it with the previous one and
\* filters the pair.
Deliver(st, v) ==
    LET c == st.c
        o == IF c.raw = "open" THEN [st.o EXCEPT !.val = Append(@, v)] ELSE st.o
    IN IF c.der # "open" THEN [c |-> c, o |-> o]
       ELSE IF v.null
       THEN [c |-> [c EXCEPT !.der = "error", !.last = <<>>],
             o |-> [o EXCEPT !.derNotif = "error"]]
       ELSE IF c.last = <<>>
       THEN [c |-> [c EXCEPT !.last = <<v>>], o |-> o]
       ELSE [c |-> [c EXCEPT !.last = <<v>>],
             o |-> CHOOSE w \in {[o EXCEPT
                        !.pairs = Append(@, pr),
                        !.button = @ \cup ButtonEmissions(pr[1], pr[2]),
                        !.coordinates = @ \cup CoordinatesEmissions(pr[1], pr[2]),
                        !.direction = @ \cup DirectionEmissions(pr[1], pr[2])] :
                     pr \in {<<c.last[1], v>>}} : TRUE]

RECURSIVE DeliverAll(_, _)
DeliverAll(st, vs) ==
    IF vs = <<>> THEN st ELSE DeliverAll(Deliver(st, Head(vs)), Tail(vs))

\* complete reaches consumer st.c
Complete(st) ==
    LET c == st.c
        o == st.o
    IN [c |-> NewConsumer,
        o |-> [o EXCEPT !.rawNotif = IF c.raw = "open" THEN "complete" ELSE @,
                        !.derNotif = IF c.der = "open" THEN "complete" ELSE @]]

Fresh(c) == [c |-> cons[c], o |-> EmptyOut]

\* the source pipeline emits vs: the subject buffers and forwards them
Broadcast(vs) ==
    /\ buffer' = ReplayAll(buffer, vs)
    /\ \E r \in {[x \in {cons[c] : c \in Consumers} |->
                     DeliverAll([c |-> x, o |-> EmptyOut], vs)]} :
          /\ cons' = [c \in Consumers |-> r[cons[c]].c]
          /\ out' = [c \in Consumers |-> r[cons[c]].o]
    /\ latest' = IF vs = <<>> THEN latest ELSE <<vs[Len(vs)]>>

RECURSIVE Copies(_, _)
Copies(vs, n) == IF n = 0 THEN <<>> ELSE vs \o Copies(vs, n - 1)

\* ------------------------------------------------------- the inner session
\* a connect signal mapped to a live gamepad at rest
gamepadConnectedLive(d) == RestGamepad

\* #gamepadConnected$: map(() => idleGamepad)
gamepadConnected(d) == idleGamepad

\* an inner observable that is the interval alone, without of(gamepad)
InnerOnSubscribeIntervalOnly(gamepad) == <<>>

\* concat(of(gamepad), interval(..)): what it emits while being subscribed
InnerOnSubscribe(gamepad) == <<gamepad>>

\* mergeMap: the previous inner observable keeps running beside the next
TimersAfterMerge(old, subs) == old + subs

\* switchMap: the previous inner observable is unsubscribed before the next
TimersAfterSwitch(old, subs) == subs

\* a completion that leaves the inner timer running
TimersAfterTakeUntilLeaked(old) == old

\* takeUntil: the notifier unsubscribes the source, its inner timer included
TimersAfterTakeUntil(old) == 0

\* an interval whose tick emits its sample twice
InnerOnTickTwice(gamepad) == <<gamepad, gamepad>>

\* interval(15, ..).pipe(map(() => getGamepads()[..])): one value per tick
InnerOnTick(gamepad) == <<gamepad>>

\* window.navigator.getGamepads()[this.#gamepadIndex]!
Polled == IF gamepadIndex \in devices THEN LiveSamples ELSE {NullGamepad}

\* ------------------------------------------- what a subscription has seen
\* a subscription that has received no snapshot yet
NoHist == [seen |-> FALSE, down |-> {}]

\* the buttons for which the step delivered an event of the stream
Fired(o, stream) == {e.index : e \in {f \in o.button : f.stream = stream}}

\* the buttons a subscription holds to be down after a step: those pressed
\* in the first snapshot it received, then each button added by an event of
\* pressed$ and removed by an event of released$
NextHist(h, k, o) ==
    IF k.der # "open" \/ k.last = <<>> THEN NoHist
    ELSE IF ~h.seen
    THEN [seen |-> TRUE, down |-> {i \in Buttons : k.last[1].buttons[i].pressed}]
    ELSE [seen |-> TRUE,
          down |-> (h.down \ Fired(o, "released")) \cup Fired(o, "pressed")]

\* the consumers whose subscription is followed event by event (the slots
\* are interchangeable)
ObservedConsumers == {1}

Observe == hist' = [c \in ObservedConsumers |-> NextHist(hist[c], cons'[c], out'[c])]

NoProbe == [op |-> "none"]

\* a constructor without the capability check
ConstructorNeverThrows(available) == FALSE

\* if (!window.navigator.getGamepads) throw Error(..)
ConstructorThrows(available) == ~available

Init ==
    /\ gamepadIndex \in ManagedIndices
    /\ hasGetGamepads \in BOOLEAN
    /\ instance = "none"
    /\ hist = [c \in ObservedConsumers |-> NoHist]
    /\ probe = NoProbe
    /\ devices = {}
    /\ connection = "none"
    /\ sourceSubs = 0
    /\ timers = 0
    /\ count = 0
    /\ sessions = 0
    /\ buffer = <<>>
    /\ cons = [c \in Consumers |-> NewConsumer]
    /\ out = [c \in Consumers |-> EmptyOut]
    /\ step = NoStep
    /\ latest = <<>>
    /\ scenario = "start"

\* new GamepadObservables(gamepadIndex): the field initialisers build cold
\* observables (nothing is subscribed), then the constructor body runs.
Construct ==
    /\ instance = "none"
    /\ instance' = IF ConstructorThrows(hasGetGamepads) THEN "failed" ELSE "ready"
    /\ step' = [NoStep EXCEPT !.op = "construct"]
    /\ out' = [c \in Consumers |-> EmptyOut]
    /\ UNCHANGED <<gamepadIndex, devices, connection, sourceSubs, timers, count,
                   sessions, buffer, cons, latest, scenario, hasGetGamepads, hist,
                   probe>>

\* A consumer subscribes to gamepadEvent$ and to the derived streams.
Subscribe(c) ==
    /\ instance = "ready"
    /\ cons[c].raw = "none"
    /\ \E st1 \in {DeliverAll([c |-> [raw |-> "open", der |-> "open", last |-> <<>>],
                               o |-> EmptyOut], buffer)} :
       \E st2 \in {IF connection = "completed" THEN Complete(st1) ELSE st1} :
          /\ cons' = [cons EXCEPT ![c] = st2.c]
          /\ out' = [d \in Consumers |-> IF d = c THEN st2.o ELSE EmptyOut]
    /\ IF NeedsConnect(connection)
       THEN /\ connection' = "open"
            /\ sourceSubs' = sourceSubs + 1
       ELSE UNCHANGED <<connection, sourceSubs>>
    /\ step' = [NoStep EXCEPT !.op = "subscribe", !.consumer = c]
    /\ Observe
    /\ UNCHANGED <<gamepadIndex, devices, timers, count, sessions, buffer, latest,
                   scenario, hasGetGamepads, instance, probe>>

\* A consumer unsubscribes from everything it holds.
Unsubscribe(c) ==
    /\ cons[c].raw = "open" \/ cons[c].der = "open"
    /\ cons' = [cons EXCEPT ![c] = NewConsumer]
    /\ out' = [d \in Consumers |-> EmptyOut]
    /\ IF /\ ResetOnRefCountZero
          /\ connection = "open"
          /\ \A d \in Consumers \ {c} : cons[d].raw # "open" /\ cons[d].der # "open"
       THEN /\ connection' = "none"
            /\ sourceSubs' = 0
            /\ timers' = 0
            /\ count' = 0
            /\ buffer' = <<>>
       ELSE UNCHANGED <<connection, sourceSubs, timers, count, buffer>>
    /\ step' = [NoStep EXCEPT !.op = "unsubscribe", !.consumer = c,
                              !.live = timers > 0]
    /\ Observe
    /\ UNCHANGED <<gamepadIndex, devices, sessions, latest, scenario, hasGetGamepads,
                   instance, probe>>

\* The host dispatches 'gamepadconnected' for device d.
ConnectSignal(d) ==
    /\ d \notin devices
    /\ devices' = devices \cup {d}
    /\ IF sourceSubs > 0
       THEN \E vs \in {Copies(InnerOnSubscribe(gamepadConnected(d)), sourceSubs)} :
               /\ Broadcast(vs)
               /\ timers' = TimersAfterSwitch(timers, sourceSubs)
               /\ count' = 0
               /\ sessions' = sessions + 1
               /\ step' = [NoStep EXCEPT !.op = "connect", !.device = d,
                                         !.live = timers > 0,
                                         !.started = TRUE, !.emits = Len(vs)]
       ELSE /\ step' = [NoStep EXCEPT !.op = "connect", !.device = d,
                                      !.live = timers > 0]
            /\ out' = [c \in Consumers |-> EmptyOut]
            /\ UNCHANGED <<timers, count, sessions, buffer, cons, latest>>
    /\ scenario' =
         IF d = gamepadIndex /\ sourceSubs > 0 /\ scenario = "start" THEN "connected"
         ELSE IF d = gamepadIndex /\ scenario = "disconnected" THEN "reconnected"
         ELSE scenario
    /\ Observe
    /\ UNCHANGED <<gamepadIndex, connection, sourceSubs, hasGetGamepads, instance, probe>>

\* The host dispatches 'gamepaddisconnected' for device d.
DisconnectSignal(d) ==
    /\ d \in devices
    /\ devices' = devices \ {d}
    /\ IF sourceSubs > 0
       THEN /\ connection' = "completed"
            /\ sourceSubs' = 0
            /\ timers' = TimersAfterTakeUntil(timers)
            /\ count' = 0
            /\ cons' = [c \in Consumers |-> Complete(Fresh(c)).c]
            /\ out' = [c \in Consumers |-> Complete(Fresh(c)).o]
            /\ step' = [NoStep EXCEPT !.op = "disconnect", !.device = d,
                                      !.live = timers > 0, !.terminated = TRUE]
       ELSE /\ step' = [NoStep EXCEPT !.op = "disconnect", !.device = d,
                                      !.live = timers > 0]
            /\ out' = [c \in Consumers |-> EmptyOut]
            /\ UNCHANGED <<connection, sourceSubs, timers, count, cons>>
    /\ scenario' =
         IF d = gamepadIndex /\ sourceSubs > 0 /\ scenario = "ticked"
         THEN "disconnected" ELSE scenario
    /\ Observe
    /\ UNCHANGED <<gamepadIndex, sessions, buffer, latest, hasGetGamepads, instance,
                   probe>>

\* The animation-frame interval fires: every active timer polls the device.
Tick ==
    /\ timers > 0
    /\ count < MaxTicks
    /\ \E g \in Polled : \E vs \in {Copies(InnerOnTick(g), timers)} :
            /\ Broadcast(vs)
            /\ step' = [NoStep EXCEPT !.op = "tick", !.live = TRUE, !.calls = timers,
                                      !.emits = Len(vs)]
    /\ count' = count + 1
    /\ scenario' = IF scenario = "connected" THEN "ticked"
                   ELSE IF scenario = "reconnected" THEN "resumed"
                   ELSE scenario
    /\ Observe
    /\ UNCHANGED <<gamepadIndex, devices, connection, sourceSubs, timers, sessions,
                   hasGetGamepads, instance, probe>>

Next ==
    \/ Construct
    \/ \E c \in Consumers : Subscribe(c)
    \/ \E c \in Consumers : Unsubscribe(c)
    \/ \E d \in Devices : ConnectSignal(d)
    \/ \E d \in Devices : DisconnectSignal(d)
    \/ Tick

Spec == Init /\ [][Next]_vars

\* --------------------------------------- the direction mapping on its own
\* axis readings in hundredths, -1.0 to 1.0, on the directions Atan2 covers
AxisValues == -100 .. 100

GridAxes ==
    {a \in AxisValues \X AxisValues :
        \/ a[1] = 0
        \/ a[2] = 0
        \/ Abs(a[1]) = Abs(a[2])
        \/ Abs(a[1]) = 2 * Abs(a[2])
        \/ Abs(a[2]) = 2 * Abs(a[1])}

\* joystick j of a live gamepad reads a: joystickEvent$ and the map of
\* direction$ are applied to it, once per behaviour
MapDirection(j, a) ==
    /\ probe = NoProbe
    /\ probe' = [op |-> "direction", joystick |-> j, x |-> a[1], y |-> a[2],
                 result |-> directionOf(joystickEvent(WithJoystick(j, a[1], a[2]), j))]
    /\ UNCHANGED <<gamepadIndex, devices, connection, sourceSubs, timers, count,
                   sessions, buffer, cons, out, step, latest, scenario,
                   hasGetGamepads, instance, hist>>

DirectionNext == \E j \in Joysticks : \E a \in GridAxes : MapDirection(j, a)

DirectionSpec == Init /\ [][DirectionNext]_vars

\* ------------------------------------------------------------ the claims
IsOpen(c) == cons[c].raw = "open"

Emitting == step.op = "tick" \/ (step.op = "connect" /\ step.started)

\* the event a stream of index i would carry for the pair pr
ButtonEventOf(stream, i, pr) ==
    [stream |-> stream, index |-> i,
     previous |-> pr[1].buttons[i], current |-> pr[2].buttons[i]]

HasEvent(evs, stream, i) == \E e \in evs : e.stream = stream /\ e.index = i

\* C1: after connect, ticks, disconnect on the managed device, the next
\* connect signal starts a new session whose first value is IdleSnapshot.
C1_ReconnectStartsSession ==
    (scenario = "reconnected" /\ step.op = "connect")
        => /\ step.started
           /\ timers = 1
           /\ latest = <<idleGamepad>>
           /\ buffer = <<idleGamepad>>

\* C2: for every button and every pair of consecutive snapshots delivered,
\* buttonPressed$ emits {previous, current} iff previous was unpressed and
\* current is pressed, buttonReleased$ iff the reverse, and nothing is
\* emitted on a pair whose pressed flag is unchanged.
C2_PressedReleased ==
    \A c \in Consumers :
        /\ Len(out[c].pairs) <= 1
        /\ out[c].pairs = <<>> => out[c].button = {}
        /\ \A n \in DOMAIN out[c].pairs : \A i \in Buttons :
             LET pr == out[c].pairs[n]
                 p == pr[1].buttons[i]
                 q == pr[2].buttons[i]
             IN /\ HasEvent(out[c].button, "pressed", i) <=> (~p.pressed /\ q.pressed)
                /\ HasEvent(out[c].button, "released", i) <=> (p.pressed /\ ~q.pressed)
                /\ \A e \in out[c].button :
                     (e.index = i /\ e.stream \in {"pressed", "released"})
                        => e = ButtonEventOf(e.stream, i, pr)

C2_Witness ==
    \E c \in Consumers : \E e \in out[c].button :
        /\ e.stream = "released"
        /\ e.index = NumButtons - 1
        /\ out[c].pairs[1][2] # idleGamepad

\* C3: for every button and every pair of consecutive snapshots delivered,
\* buttonChange$ emits iff previous.value differs from current.value,
\* whatever the pressed flags do.
C3_Change ==
    \A c \in Consumers :
        \A n \in DOMAIN out[c].pairs : \A i \in Buttons :
            LET pr == out[c].pairs[n]
                p == pr[1].buttons[i]
                q == pr[2].buttons[i]
            IN /\ HasEvent(out[c].button, "change", i) <=> (p.value # q.value)
               /\ \A e \in out[c].button :
                    (e.index = i /\ e.stream = "change")
                       => e = ButtonEventOf("change", i, pr)

C3_Witness ==
    \E c \in Consumers : \E e \in out[c].button :
        /\ e.stream = "change"
        /\ e.previous.pressed = e.current.pressed
        /\ ~HasEvent(out[c].button, "pressed", e.index)
        /\ ~HasEvent(out[c].button, "released", e.index)

\* C4: a connect or disconnect signal for a device other than the managed
\* index neither starts, restarts nor terminates the managed sampling session.
C4_OtherDeviceIgnored ==
    (step.op \in {"connect", "disconnect"} /\ step.device # gamepadIndex)
        => /\ ~step.started
           /\ ~step.terminated
           /\ step.emits = 0

\* C5: no snapshot is emitted before the first connect signal; a connect
\* signal emits IdleSnapshot at once, so until the first tick of a session the
\* latest value is IdleSnapshot and every subscriber got it.
C5_IdleFirst ==
    /\ sessions = 0 =>
         /\ latest = <<>>
         /\ buffer = <<>>
         /\ \A c \in Consumers : out[c].val = <<>>
    /\ (timers > 0 /\ count = 0) => latest = <<idleGamepad>>
    /\ (step.op = "connect" /\ step.started) =>
         /\ step.emits = 1
         /\ \A c \in Consumers : IsOpen(c) => out[c].val = <<idleGamepad>>

C5_Witness ==
    /\ step.op = "connect"
    /\ step.started
    /\ \E c \in Consumers : out[c].val = <<idleGamepad>>

\* C6: a disconnect signal during a session completes the snapshot stream
\* and the derived streams of every consumer without an error, delivers no
\* value with it, and stops the timer: nothing is sampled afterwards.
C6_DisconnectCompletes ==
    /\ (step.op = "disconnect" /\ step.live) =>
         /\ step.terminated
         /\ \A c \in Consumers :
              /\ out[c].val = <<>>
              /\ out[c].pairs = <<>>
              /\ out[c].button = {}
              /\ out[c].coordinates = {}
              /\ out[c].direction = {}
              /\ out[c].derNotif # "error"
              /\ out[c].rawNotif \in {"none", "complete"}
    /\ connection = "completed" =>
         /\ timers = 0
         /\ sourceSubs = 0
         /\ step.op # "tick"
         /\ step.emits = 0
         /\ \A c \in Consumers : cons[c].raw # "open" /\ cons[c].der # "open"

C6_Witness ==
    /\ step.op = "disconnect"
    /\ step.live
    /\ count > 0 \/ latest # <<idleGamepad>>
    /\ \E c \in Consumers :
         out[c].rawNotif = "complete" /\ out[c].derNotif = "complete"

\* C7: one sampling subscription serves all consumers: there is at most one
\* source subscription and one timer, a tick polls the device once, and every
\* consumer attached at an emission receives that same one value.
C7_OneSampling ==
    /\ sourceSubs <= 1
    /\ timers <= 1
    /\ step.op = "tick" => (step.calls = 1 /\ step.emits = 1)
    /\ Emitting =>
         \A c \in Consumers : IsOpen(c) => out[c].val = latest

C7_Witness ==
    /\ step.op = "tick"
    /\ \E c, d \in Consumers :
         /\ c # d
         /\ out[c].val # <<>>
         /\ out[c].val = out[d].val
         /\ ~out[c].val[1].null

\* C8: a consumer that subscribes after emission started receives at once
\* the single most recent snapshot, and its subscription polls nothing and
\* starts no second timer or source subscription; it then receives every
\* later snapshot.
C8_LateSubscriber ==
    /\ step.op = "subscribe" =>
         /\ out[step.consumer].val = latest
         /\ step.calls = 0
         /\ step.emits = 0
         /\ timers <= 1
         /\ sourceSubs <= 1
    /\ Emitting =>
         \A c \in Consumers : IsOpen(c) => (out[c].val # <<>> /\ Len(buffer) = 1)

C8_Witness ==
    /\ step.op = "subscribe"
    /\ connection = "open"
    /\ count > 0
    /\ out[step.consumer].val = latest
    /\ latest # <<>>
    /\ \E d \in Consumers : d # step.consumer /\ IsOpen(d)

\* a gamepad whose buttons are all untouched
NoButtonTouched(g) == \A i \in Buttons : g.buttons[i] = IdleButton

\* joystick j of gamepad g is centred
Centred(g, j) == g.axes[2 * j] = Num(0) /\ g.axes[2 * j + 1] = Num(0)

\* C9: when IdleSnapshot is followed by a first live sample in which a
\* joystick is centred and no button is touched, no coordinates event and no
\* direction event of that joystick and no button event is emitted.
C9_IdleThenRestSilent ==
    \A c \in Consumers : \A n \in DOMAIN out[c].pairs : \A j \in Joysticks :
        LET pr == out[c].pairs[n]
        IN (pr[1] = idleGamepad /\ pr[2] # idleGamepad
                /\ Centred(pr[2], j) /\ NoButtonTouched(pr[2]))
             => /\ ~HasEvent(out[c].coordinates, "coordinates", j)
                /\ ~HasEvent(out[c].direction, "direction", j)
                /\ out[c].button = {}

\* C10: joystickMoved$ of joystick i carries x = axes[2i], y = -axes[2i+1]
\* and emits for a pair of consecutive snapshots iff x or y differs between
\* them; identical consecutive coordinates yield no event.
C10_Moved ==
    \A c \in Consumers : \A n \in DOMAIN out[c].pairs : \A j \in Joysticks :
        LET pr == out[c].pairs[n]
            previous == joystickEvent(pr[1], j)
            current == joystickEvent(pr[2], j)
        IN /\ HasEvent(out[c].coordinates, "coordinates", j) <=> (previous # current)
           /\ \A e \in out[c].coordinates :
                e.index = j => (e.previous = previous /\ e.current = current)

\* C11: for each joystick and every pair of consecutive snapshots delivered,
\* joystickDirection$ emits iff the derived angle differs between them; when
\* the angle is the same and the coordinates differ, the coordinates event is
\* emitted and the direction event is not.
C11_Direction ==
    \A c \in Consumers : \A n \in DOMAIN out[c].pairs : \A j \in Joysticks :
        LET pr == out[c].pairs[n]
            jp == joystickEvent(pr[1], j)
            jc == joystickEvent(pr[2], j)
            pa == getAngleFromCoordinates(jp.x, jp.y)
            ca == getAngleFromCoordinates(jc.x, jc.y)
        IN /\ HasEvent(out[c].direction, "direction", j) <=> (pa # ca)
           /\ (pa = ca /\ jp # jc) => HasEvent(out[c].coordinates, "coordinates", j)

\* C12: when a tick of a connected session polls null, the value is treated
\* as IdleSnapshot: no subscriber of a derived stream receives an error, and
\* the derivers pair it as an idle snapshot.
C12_NullAsIdle ==
    (step.op = "tick" /\ latest # <<>> /\ latest[1].null)
        => \A c \in Consumers :
             /\ out[c].derNotif # "error"
             /\ cons[c].der # "error"
             /\ \A n \in DOMAIN out[c].pairs : out[c].pairs[n][2] = idleGamepad

\* C13: in a tick of a connected session the snapshot stream emits exactly
\* one snapshot; every subscriber of the stream receives exactly that one,
\* and every derived stream pairs it with the snapshot of the emission just
\* before it: nothing is skipped, duplicated or reordered.
C13_OnePerTick ==
    [][step'.op = "tick" =>
         /\ step'.emits = 1
         /\ count' = count + 1
         /\ buffer' = latest'
         /\ Len(latest') = 1
         /\ \A c \in Consumers :
              /\ cons[c].raw = "open" => out'[c].val = latest'
              /\ (cons[c].der = "open" /\ ~latest'[1].null)
                    => out'[c].pairs = << <<latest[1], latest'[1]>> >>
              /\ cons[c].der # "open" => out'[c].pairs = <<>>]_vars

C13_Witness ==
    /\ step.op = "tick"
    /\ count = 2
    /\ \E c \in Consumers :
         /\ Len(out[c].pairs) = 1
         /\ out[c].pairs[1][1] # idleGamepad
         /\ out[c].pairs[1][1] # out[c].pairs[1][2]
         /\ out[c].val = <<out[c].pairs[1][2]>>

\* C14: on a host without navigator.getGamepads the construction fails at
\* once: no instance exists, nothing listens to the connect and disconnect
\* signals and no timer runs, whatever signals arrive afterwards.
C14_NoCapabilityFails ==
    /\ (step.op = "construct" /\ ~hasGetGamepads) => instance = "failed"
    /\ ~hasGetGamepads =>
         /\ instance # "ready"
         /\ connection = "none"
         /\ sourceSubs = 0
         /\ timers = 0
         /\ buffer = <<>>
         /\ \A c \in Consumers : cons[c] = NewConsumer /\ out[c] = EmptyOut

C14_Witness ==
    /\ ~hasGetGamepads
    /\ instance = "failed"
    /\ step.op = "connect"
    /\ gamepadIndex \in devices

\* C15: an unsubscription leaves the shared session as it is (its source
\* subscription, its timer, its replay buffer and the other consumers), and
\* a running timer is stopped by a disconnect signal only.
C15_UnsubscribeKeepsSession ==
    [][/\ step'.op = "unsubscribe" =>
            /\ timers' = timers
            /\ count' = count
            /\ sourceSubs' = sourceSubs
            /\ connection' = connection
            /\ buffer' = buffer
            /\ \A d \in Consumers \ {step'.consumer} : cons'[d] = cons[d]
       /\ (timers > 0 /\ timers' = 0) => step'.op = "disconnect"
       /\ (step'.op = "tick" /\ timers > 0) =>
            \A d \in Consumers : cons[d].raw = "open" => out'[d].val = latest']_vars

C15_Witness ==
    /\ step.op = "unsubscribe"
    /\ step.live
    /\ timers = 1
    /\ count > 0
    /\ \E d \in Consumers : d # step.consumer /\ IsOpen(d)

\* C16: the pressure of a direction is the magnitude sqrt(x^2 + y^2) (to the
\* thousandth) when the magnitude is below 0.975 and exactly 1.0 when it is
\* at least 0.975; it never exceeds 1.0 for axis values in [-1, 1].
C16_Pressure ==
    probe.op = "direction" =>
        LET m == (probe.x * probe.x + probe.y * probe.y) * 100
            p == probe.result.pressure
        IN /\ p.k = "num"
           /\ p.v >= 0 /\ p.v <= 1000
           /\ m >= 975 * 975 => p.v = 1000
           /\ m < 975 * 975 => (p.v * p.v <= m /\ m < (p.v + 1) * (p.v + 1))
           /\ (probe.x = 99 /\ probe.y = 0) => p.v = 1000
           /\ (probe.x = 100 /\ probe.y = 100) => p.v = 1000

C16_Witness ==
    /\ probe.op = "direction"
    /\ probe.x = 99
    /\ probe.y = 0
    /\ probe.result.pressure = Num(1000)

\* C17: the angle of every emitted direction lies in [0, 360), and a pair of
\* snapshots that moves a joystick from (0,0) to (1,0) yields the coordinates
\* event {previous = (0,0), current = (1,0)} and no direction event.
C17_Angle ==
    \A c \in Consumers :
        /\ \A e \in out[c].direction : \A d \in {e.previous, e.current} :
              d.angle.k = "num" /\ d.angle.v >= 0 /\ d.angle.v < 360000
        /\ \A n \in DOMAIN out[c].pairs : \A j \in Joysticks :
              LET jp == joystickEvent(out[c].pairs[n][1], j)
                  jc == joystickEvent(out[c].pairs[n][2], j)
              IN (jp = [x |-> Num(0), y |-> Num(0)] /\ jc = [x |-> Num(100), y |-> Num(0)])
                   => /\ \E e \in out[c].coordinates :
                            e.index = j /\ e.previous = jp /\ e.current = jc
                      /\ ~HasEvent(out[c].direction, "direction", j)

\* C18: for one subscription and any button, the events of buttonPressed$
\* and buttonReleased$ alternate, and a subscription made before the connect
\* signal gets a pressed event first.  The subscription keeps the set of
\* buttons it holds down (those pressed in its first snapshot, none for
\* IdleSnapshot; added by a pressed event, removed by a released event): a
\* pressed event never comes for a button held down, and a released event
\* never for a button not held down.
C18_Alternate ==
    [][\A c \in ObservedConsumers : \A i \in Buttons :
          /\ HasEvent(out'[c].button, "pressed", i) =>
                /\ hist[c].seen
                /\ i \notin hist[c].down
                /\ ~HasEvent(out'[c].button, "released", i)
          /\ HasEvent(out'[c].button, "released", i) =>
                /\ hist[c].seen
                /\ i \in hist[c].down]_vars

C18_Witness ==
    \E c \in ObservedConsumers : \E i \in Buttons :
        /\ step.op = "tick"
        /\ sessions = 1
        /\ count = 2
        /\ HasEvent(out[c].button, "released", i)
        /\ i \notin hist[c].down
        /\ out[c].pairs[1][1].buttons[i].pressed

\* C19: at most one polling timer is active at any time: a connect signal
\* that arrives during a session replaces the timer of that session, and no
\* step delivers two snapshots to a consumer.
C19_OneTimer ==
    /\ timers <= 1
    /\ timers <= sourceSubs
    /\ (step.op = "connect" /\ step.started) => (timers = 1 /\ count = 0)
    /\ \A c \in Consumers : Len(out[c].val) <= 1

C19_Witness ==
    /\ step.op = "connect"
    /\ step.live
    /\ step.started
    /\ sessions = 2
    /\ timers = 1
    /\ \E c \in Consumers : Len(out[c].pairs) = 1 /\ out[c].pairs[1][1] # idleGamepad

====
